---- MODULE Spec2Model ----
(***************************************************************************)
(* The two-period consumption-saving model of src/modelproject/utils.py    *)
(* (class ConSavModel): parameter objects, the closed-form solver, the     *)
(* period-2 and period-1 grid solvers, the interpolator and the three      *)
(* solvez* entry points, as a state machine stepped one grid point at a    *)
(* time.                                                                   *)
(*                                                                         *)
(* Numbers.  Python floats are modelled as exact rationals <<n, d>> with   *)
(* d > 0 in lowest terms, in TLC's 32-bit integers.  The literal 1e-8 of   *)
(* the source (first grid point and lower search bound) cannot share that  *)
(* range with the grids' upper ends 4 and 5, so it is the rational Eps, a  *)
(* positive number below both; everywhere the source writes 1e-8 the model *)
(* uses the one definition Eps.  The grid sizes 500, 100 and 300 are the   *)
(* definitions N2, N1Risk, N1NoRisk and N1Stoch, scaled down so that every *)
(* grid can be enumerated; N1Risk differs from N1NoRisk as 100 from 300.   *)
(***************************************************************************)
EXTENDS Integers, Sequences, FiniteSets, TLC

\* ------------------------------------------------------------ arithmetic

Abs(x) == IF x < 0 THEN -x ELSE x

RECURSIVE GCD(_, _)
GCD(a, b) == IF b = 0 THEN a ELSE GCD(b, a % b)

\* The rational n/d in lowest terms with a positive denominator (d # 0).
Rat(n, d) ==
  LET g == GCD(Abs(n), Abs(d))
      s == IF d < 0 THEN -1 ELSE 1
  IN  <<(s * n) \div g, (s * d) \div g>>

OfInt(n) == <<n, 1>>

RAdd(x, y) ==
  LET g == GCD(x[2], y[2])
  IN  Rat(x[1] * (y[2] \div g) + y[1] * (x[2] \div g), (x[2] \div g) * y[2])

RNeg(x) == <<-x[1], x[2]>>

RSub(x, y) == RAdd(x, RNeg(y))

RMul(x, y) ==
  LET g1 == GCD(Abs(x[1]), y[2])
      g2 == GCD(Abs(y[1]), x[2])
  IN  Rat((x[1] \div g1) * (y[1] \div g2), (x[2] \div g2) * (y[2] \div g1))

\* x / y for y # 0.
RDiv(x, y) == RMul(x, Rat(y[2], y[1]))

RLt(x, y) == RSub(x, y)[1] < 0

RLe(x, y) == RSub(x, y)[1] <= 0

\* x ** n for an integer n (x # 0 when n < 0).
RECURSIVE RPow(_, _)
RPow(x, n) ==
  IF n = 0 THEN OfInt(1)
  ELSE IF n < 0 THEN RDiv(OfInt(1), RPow(x, -n))
  ELSE RMul(x, RPow(x, n - 1))

\* ------------------------------------------------------------ constants

\* The source's 1e-8: the first point of every wealth grid and the lower
\* bound of every bounded search.
Eps == Rat(1, 1)

\* Upper ends of the wealth grids: 5 for period 2 and for the stochastic
\* period-1 grid, 4 for the two other period-1 grids.
Hi2 == 5
Hi1 == 4
Hi1Stoch == 5

\* Grid sizes (the source's 500, 100, 300 and 300).
N2 == 4
N1Risk == 3
N1NoRisk == 4
N1Stoch == 3

\* Number of subdivisions of the search interval by the bounded minimizer:
\* the points it evaluates are a + k*(b-a)/SearchRes, 0 < k < SearchRes.
SearchRes == 3

\* Python's None (a parameter left at its default), and the content of an
\* np.empty entry that has not been assigned yet.
None == <<>>
Uninit == <<0, 0>>

\* ------------------------------------------------------------ pure functions

\* np.linspace(lo, hi, n): n >= 2 evenly spaced points, first lo, last hi.
Linspace(lo, hi, n) ==
  [k \in 1..n |-> RAdd(lo, RMul(OfInt(k - 1), RDiv(RSub(hi, lo), OfInt(n - 1))))]

\* utility_crra: (c**(1-rho))/(1-rho).
utility_crra(self, c) == RDiv(RPow(c, 1 - self.rho), OfInt(1 - self.rho))

\* v2_func: cons + beq.
v2_func(self, c2, m2) ==
  LET cons == RDiv(RPow(c2, 1 - self.rho), OfInt(1 - self.rho))
      beq  == RDiv(RMul(self.gamma,
                        RPow(RAdd(RSub(m2, c2), self.kappa), 1 - self.rho)),
                   OfInt(1 - self.rho))
  IN  RAdd(cons, beq)

\* interp: the RegularGridInterpolator over (m_grid,) with values v_grid,
\* bounds_error=False, fill_value=None.
interp(m_grid, v_grid) == [grid |-> m_grid, values |-> v_grid]

\* The grid cell a query falls in: np.searchsorted(grid, x) - 1, clipped to
\* 0 .. n-2 (as a 1-based index: 1 .. n-1).
FindIndex(grid, x) ==
  LET n == Len(grid)
      j == Cardinality({k \in 1..n : RLt(grid[k], x)})
      i == j - 1
  IN  (IF i < 0 THEN 0 ELSE IF i > n - 2 THEN n - 2 ELSE i) + 1

\* Fault: the query is clamped to the grid's range before interpolating
\* (constant continuation outside the grid, as np.interp does).
InterpCallClamped(func, x) ==
  LET n  == Len(func.grid)
      xc == IF RLt(x, func.grid[1]) THEN func.grid[1]
            ELSE IF RLt(func.grid[n], x) THEN func.grid[n] ELSE x
      i  == FindIndex(func.grid, xc)
      w  == RDiv(RSub(xc, func.grid[i]), RSub(func.grid[i + 1], func.grid[i]))
  IN  RAdd(RMul(RSub(OfInt(1), w), func.values[i]), RMul(w, func.values[i + 1]))

\* func([x])[0]: linear in the cell's two values with the normalised
\* distance of x from the cell's left edge, whether or not x is in the cell.
InterpCall(func, x) ==
  LET i == FindIndex(func.grid, x)
      w == RDiv(RSub(x, func.grid[i]), RSub(func.grid[i + 1], func.grid[i]))
  IN  RAdd(RMul(RSub(OfInt(1), w), func.values[i]), RMul(w, func.values[i + 1]))

\* Fault: the two income points summed without their weights p and 1-p.
v1_func_unweighted(self, c1, m1, v2_interp_func) ==
  LET y2_low  == RSub(OfInt(1), self.delta)
      y2_high == RAdd(OfInt(1), self.delta)
      m2_low  == RAdd(RMul(RAdd(OfInt(1), self.r), RSub(m1, c1)), y2_low)
      m2_high == RAdd(RMul(RAdd(OfInt(1), self.r), RSub(m1, c1)), y2_high)
      exp_v2_low  == InterpCall(v2_interp_func, m2_low)
      exp_v2_high == InterpCall(v2_interp_func, m2_high)
      total == RAdd(exp_v2_high, exp_v2_low)
  IN  RAdd(utility_crra(self, c1), RMul(self.beta, total))

\* Fault: the weights swapped, p on the low point and 1-p on the high one.
v1_func_swapped(self, c1, m1, v2_interp_func) ==
  LET y2_low  == RSub(OfInt(1), self.delta)
      y2_high == RAdd(OfInt(1), self.delta)
      m2_low  == RAdd(RMul(RAdd(OfInt(1), self.r), RSub(m1, c1)), y2_low)
      m2_high == RAdd(RMul(RAdd(OfInt(1), self.r), RSub(m1, c1)), y2_high)
      exp_v2_low  == InterpCall(v2_interp_func, m2_low)
      exp_v2_high == InterpCall(v2_interp_func, m2_high)
      total == RAdd(RMul(self.p, exp_v2_low),
                    RMul(RSub(OfInt(1), self.p), exp_v2_high))
  IN  RAdd(utility_crra(self, c1), RMul(self.beta, total))

\* v1_func: two-point income risk 1 -/+ delta, weight p on the high point.
v1_func(self, c1, m1, v2_interp_func) ==
  LET y2_low  == RSub(OfInt(1), self.delta)
      y2_high == RAdd(OfInt(1), self.delta)
      m2_low  == RAdd(RMul(RAdd(OfInt(1), self.r), RSub(m1, c1)), y2_low)
      m2_high == RAdd(RMul(RAdd(OfInt(1), self.r), RSub(m1, c1)), y2_high)
      exp_v2_low  == InterpCall(v2_interp_func, m2_low)
      exp_v2_high == InterpCall(v2_interp_func, m2_high)
      total == RAdd(RMul(self.p, exp_v2_high),
                    RMul(RSub(OfInt(1), self.p), exp_v2_low))
  IN  RAdd(utility_crra(self, c1), RMul(self.beta, total))

\* v1_func_no_risk: income 1 for sure.
v1_func_no_risk(self, c1, m1, v2_interp_func) ==
  LET y2 == OfInt(1)
      m2 == RAdd(RMul(RAdd(OfInt(1), self.r), RSub(m1, c1)), y2)
      exp_v2 == InterpCall(v2_interp_func, m2)
  IN  RAdd(utility_crra(self, c1), RMul(self.beta, exp_v2))

\* v1_func_stoch: multiplicative risk 1 -/+ sigma on next-period wealth.
v1_func_stoch(self, c1, m1, sigma, v2_interp_func) ==
  LET m2_low  == RMul(RMul(RAdd(OfInt(1), self.r), RSub(m1, c1)),
                      RSub(OfInt(1), sigma))
      m2_high == RMul(RMul(RAdd(OfInt(1), self.r), RSub(m1, c1)),
                      RAdd(OfInt(1), sigma))
      exp_v2_low  == InterpCall(v2_interp_func, m2_low)
      exp_v2_high == InterpCall(v2_interp_func, m2_high)
      total == RAdd(RMul(self.p, exp_v2_high),
                    RMul(RSub(OfInt(1), self.p), exp_v2_low))
  IN  RAdd(utility_crra(self, c1), RMul(self.beta, total))

\* The points a bounded search over (a, b) evaluates: strictly inside the
\* interval when a < b, and a itself when a = b.
Candidates(a, b) ==
  [k \in 1..(SearchRes - 1) |->
     RAdd(a, RDiv(RMul(OfInt(k), RSub(b, a)), OfInt(SearchRes)))]

\* Index of the least objective value (the first one on a tie).
ArgMin(fs) ==
  CHOOSE k \in DOMAIN fs :
    /\ \A j \in DOMAIN fs : RLe(fs[k], fs[j])
    /\ \A j \in DOMAIN fs : j < k => RLt(fs[k], fs[j])

\* optimize.minimize_scalar(obj, method='bounded', bounds=(a, b)) on the
\* objective values fs at the evaluated points xs: the best evaluated point.
MinimizeScalarBounded(xs, fs) ==
  LET k == ArgMin(fs) IN [x |-> xs[k], fun |-> fs[k]]

\* x ** (1/rho) for x > 0 and an integer rho # 0, to the resolution
\* 1/RootRes of the model: the exact root when it is a multiple of 1/RootRes,
\* else the two neighbouring multiples (never zero: a positive base has a
\* positive power).
RootRes == 4

\* The largest k with (k/RootRes)**n <= x, for 0 <= x <= 3**n.
RootFloor(x, n) ==
  Cardinality({k \in 0..(3 * RootRes) : RLe(RPow(Rat(k, RootRes), n), x)}) - 1

PowRoot(x, rho) ==
  LET n  == Abs(rho)
      y  == IF rho < 0 THEN RDiv(OfInt(1), x) ELSE x
      lo == RootFloor(y, n)
      rs == IF RPow(Rat(lo, RootRes), n) = y THEN {Rat(lo, RootRes)}
            ELSE {Rat(k, RootRes) : k \in {lo, lo + 1} \ {0}}
  IN  rs

\* Fault: the denominator's parentheses lost, c1 - ((1+r)*m1/pw + 1 + r).
crra_obj_precedence(self, m1, pw, c1) ==
  RSub(c1, RAdd(RAdd(RDiv(RMul(RAdd(OfInt(1), self.r), m1), pw), OfInt(1)),
                self.r))

\* The objective of solve_cons_crra, given pw = (beta*(1+r))**(1/rho).
crra_obj(self, m1, pw, c1) ==
  RSub(c1, RDiv(RMul(RAdd(OfInt(1), self.r), m1),
                RAdd(RAdd(pw, OfInt(1)), self.r)))

\* optimize.root_scalar(obj, x0=guess, method='newton') on that objective:
\* Newton's step from the guess with the slope taken by a finite difference
\* (the objective is linear in c1, so one step lands on the root).
RootScalarNewton(self, m1, pw, guess) ==
  LET h  == Rat(1, 8)
      f0 == crra_obj(self, m1, pw, guess)
      fp == RDiv(RSub(crra_obj(self, m1, pw, RAdd(guess, h)), f0), h)
  IN  RSub(guess, RDiv(f0, fp))

\* Fault: c2_star = (1+r)*m1 - c1_star.
solve_cons_crra_misparen(self, m1, pw) ==
  LET guess   == RDiv(m1, OfInt(2))
      c1_star == RootScalarNewton(self, m1, pw, guess)
      c2_star == RSub(RMul(RAdd(OfInt(1), self.r), m1), c1_star)
  IN  <<c1_star, c2_star>>

\* solve_cons_crra: (c1_star, c2_star).
solve_cons_crra(self, m1, pw) ==
  LET guess   == RDiv(m1, OfInt(2))
      c1_star == RootScalarNewton(self, m1, pw, guess)
      c2_star == RMul(RAdd(OfInt(1), self.r), RSub(m1, c1_star))
  IN  <<c1_star, c2_star>>

\* ------------------------------------------------------------ state

\* The caller's two names for model objects, and the number of attribute
\* assignments it makes.
Names == {"model", "clone"}
MaxSets == 1

\* Completed runs SpecRuns keeps in log.
MaxRuns == 2

\* Optimiser results without convergence one call receives in SpecFail.
MaxFail == 1

Fields ==
  {"r", "beta", "rho", "gamma", "delta", "kappa", "sigma_low", "sigma_high", "p"}

VARIABLES
  heap,            \* sequence of objects: object id -> its nine attributes
  ref,             \* the caller's names: name -> object id, 0 when unbound
  nsets,           \* attribute assignments made so far
  pc,              \* where the running call is; "idle" between calls
  entry,           \* the method the caller called
  self,            \* the object the call runs on
  v1,              \* the period-1 objective passed by the caller
  i,               \* loop index of the grid loop in progress
  m2_grid, v2_grid, c2_grid,
  v2_interp_func,
  m1_grid, v1_grid, c1_grid,
  sigma,           \* the stochastic solver's local sigma
  ndraws,          \* np.random.uniform calls made by the running call
  ret,             \* what the last call returned to the caller
  qres,            \* the last query of a returned interpolator: [x, y]
  log,             \* the completed solvez* runs (history, kept by SpecRuns)
  success,         \* result.success / res.converged of each optimiser result
                   \* the last call received, in order (history: the code
                   \* never reads the flag)
  economy          \* the ExchangeEconomyClass object the caller holds

vars ==
  <<heap, ref, nsets, pc, entry, self, v1, i, m2_grid, v2_grid, c2_grid,
    v2_interp_func, m1_grid, v1_grid, c1_grid, sigma, ndraws, ret, qres, log,
    success, economy>>

frame ==
  <<entry, self, v1, i, m2_grid, v2_grid, c2_grid, v2_interp_func,
    m1_grid, v1_grid, c1_grid, sigma, ndraws>>

\* ConSavModel(...): the keyword defaults of __init__, and two fully
\* populated parameter sets.
Defaults ==
  [r |-> Rat(1, 20), beta |-> Rat(19, 20), rho |-> 5, gamma |-> None,
   delta |-> None, kappa |-> None, sigma_low |-> None, sigma_high |-> None,
   p |-> Rat(1, 2)]

Risky ==
  [r |-> OfInt(0), beta |-> Rat(1, 2), rho |-> 2, gamma |-> Rat(1, 4),
   delta |-> Rat(1, 2), kappa |-> OfInt(1), sigma_low |-> Rat(1, 4),
   sigma_high |-> Rat(1, 2), p |-> Rat(1, 4)]

Symmetric == [Risky EXCEPT !.delta = OfInt(0), !.p = Rat(1, 2)]

Lover ==
  [r |-> Rat(1, 2), beta |-> OfInt(1), rho |-> -2, gamma |-> OfInt(1),
   delta |-> Rat(1, 2), kappa |-> OfInt(2), sigma_low |-> Rat(1, 2),
   sigma_high |-> Rat(1, 2), p |-> OfInt(1)]

CtorArgs == {Defaults, Risky, Symmetric, Lover}

\* Values a caller assigns to an attribute.
AttrValues(f) ==
  CASE f = "r"          -> {Rat(-1, 2)}
    [] f = "beta"       -> {Rat(1, 2)}
    [] f = "rho"        -> {-2}
    [] f = "gamma"      -> {OfInt(1)}
    [] f = "delta"      -> {OfInt(0)}
    [] f = "kappa"      -> {OfInt(2)}
    [] f = "sigma_low"  -> {Rat(1, 2)}
    [] f = "sigma_high" -> {Rat(1, 4)}
    [] f = "p"          -> {OfInt(0)}

\* Initial wealths passed to solve_cons_crra.
M1Args == {OfInt(2), Rat(1, 2)}

\* Grids a caller passes to interp directly, and wealths it queries.
UserGrids ==
  { <<<<Eps, OfInt(2), OfInt(5)>>, <<OfInt(-3), OfInt(-1), OfInt(0)>>>>,
    <<<<OfInt(1), OfInt(2)>>, <<OfInt(4), OfInt(1)>>>> }

Queries == {OfInt(-1), Eps, OfInt(1), Rat(3, 2), OfInt(2), OfInt(3), OfInt(5), OfInt(7)}

NoRet == [kind |-> "none", val |-> <<>>]
NoFunc == [grid |-> <<>>, values |-> <<>>]
NoQuery == [x |-> None, y |-> None]
NoEconomy == [alpha |-> None, beta |-> None, w1A |-> None, w2A |-> None,
              w1B |-> None, w2B |-> None]

Blank ==
  /\ entry' = "none"
  /\ self' = 0
  /\ v1' = "none"
  /\ i' = 0
  /\ m2_grid' = <<>> /\ v2_grid' = <<>> /\ c2_grid' = <<>>
  /\ v2_interp_func' = NoFunc
  /\ m1_grid' = <<>> /\ v1_grid' = <<>> /\ c1_grid' = <<>>
  /\ sigma' = None
  /\ ndraws' = 0

Init ==
  /\ heap \in {<<a>> : a \in CtorArgs}
  /\ ref = [n \in Names |-> IF n = "model" THEN 1 ELSE 0]
  /\ nsets = 0
  /\ pc = "idle"
  /\ entry = "none" /\ self = 0 /\ v1 = "none" /\ i = 0
  /\ m2_grid = <<>> /\ v2_grid = <<>> /\ c2_grid = <<>>
  /\ v2_interp_func = NoFunc
  /\ m1_grid = <<>> /\ v1_grid = <<>> /\ c1_grid = <<>>
  /\ sigma = None /\ ndraws = 0
  /\ ret = NoRet
  /\ qres = NoQuery
  /\ log = <<>>
  /\ success = <<>>
  /\ economy = NoEconomy

\* ------------------------------------------------------------ the caller

\* model.<f> = val.
SetAttr(k, f, val) ==
  /\ pc = "idle"
  /\ nsets < MaxSets
  /\ heap' = [heap EXCEPT ![ref[k]][f] = val]
  /\ nsets' = nsets + 1
  /\ UNCHANGED <<ref, pc, frame, ret, qres, log, success,
                 economy>>

\* Fault: copy returns self (no new object).
deepcopy_alias(h, o) == [heap |-> h, obj |-> o]

\* copy.deepcopy(self): a new object with the same attribute values.
deepcopy(h, o) == [heap |-> Append(h, h[o]), obj |-> Len(h) + 1]

\* clone = model.copy().
Copy ==
  /\ pc = "idle"
  /\ ref["clone"] = 0
  /\ LET c == deepcopy(heap, ref["model"])
     IN  /\ heap' = c.heap
         /\ ref' = [ref EXCEPT !["clone"] = c.obj]
  /\ UNCHANGED <<nsets, pc, frame, ret, qres, log, success,
                 economy>>

\* model.solve_cons_crra(m1), for the parameters it is defined on:
\* beta*(1+r) > 0 and rho # 0.
Call_solve_cons_crra(k, m1) ==
  /\ pc = "idle"
  /\ LET me == heap[ref[k]]
         x  == RMul(me.beta, RAdd(OfInt(1), me.r))
     IN  /\ x[1] > 0
         /\ me.rho # 0
         /\ \E pw \in PowRoot(x, me.rho) :
              ret' = [kind |-> "crra", val |-> solve_cons_crra(me, m1, pw),
                      m1 |-> m1, pw |-> pw, params |-> me]
  /\ qres' = NoQuery
  /\ success' = <<TRUE>>
  /\ UNCHANGED economy
  /\ UNCHANGED <<heap, ref, nsets, pc, frame, log>>

\* model.interp(m_grid, v_grid) on grids of the caller's own.
Call_interp(k, g) ==
  /\ pc = "idle"
  /\ ret' = [kind |-> "func", val |-> interp(g[1], g[2])]
  /\ qres' = NoQuery
  /\ UNCHANGED <<heap, ref, nsets, pc, frame, log, success,
                 economy>>

\* model.interp(m2_grid, v2_grid) on what solve_period_2 just returned.
Call_interp_ret(k) ==
  /\ pc = "idle"
  /\ ret.kind = "period2"
  /\ ret' = [kind |-> "func", val |-> interp(ret.val[1], ret.val[2])]
  /\ qres' = NoQuery
  /\ UNCHANGED <<heap, ref, nsets, pc, frame, log, success,
                 economy>>

\* func([x])[0] on the interpolator the caller holds.
Query(x) ==
  /\ pc = "idle"
  /\ ret.kind = "func"
  /\ qres' = [x |-> x, y |-> InterpCall(ret.val, x)]
  /\ UNCHANGED <<heap, ref, nsets, pc, frame, ret, log, success,
                 economy>>

\* ------------------------------------------------------------ grid solvers

\* Which period-1 solver an entry point runs.
SolverOf(e) ==
  CASE e = "solvez"         -> "solve_period_1"
    [] e = "solvez_no_risk" -> "solve_period_1_no_risk"
    [] e = "solvez_stoch"   -> "solve_period_1_stoch"
    [] OTHER                -> e

\* Size and upper end of each solver's period-1 grid.
GridSize(solver) ==
  CASE solver = "solve_period_1"         -> N1Risk
    [] solver = "solve_period_1_no_risk" -> N1NoRisk
    [] solver = "solve_period_1_stoch"   -> N1Stoch

GridHi(solver) ==
  CASE solver = "solve_period_1"         -> Hi1
    [] solver = "solve_period_1_no_risk" -> Hi1
    [] solver = "solve_period_1_stoch"   -> Hi1Stoch

\* The objectives a solver can be handed: the stochastic solver calls
\* v1(c1, m1, sigma, f), the two others v1(c1, m1, f).
ObjectivesOf(solver) ==
  IF solver = "solve_period_1_stoch" THEN {"v1_func_stoch"}
  ELSE {"v1_func", "v1_func_no_risk"}

\* The attributes a call reads must have been given values (the caller's
\* obligation; the code does not check).
HasBequest(me) == me.gamma # None /\ me.kappa # None

HasRisk(me, solver, objective) ==
  /\ objective = "v1_func" => me.delta # None
  /\ solver = "solve_period_1_stoch" =>
       me.sigma_low # None /\ me.sigma_high # None

\* The risk aversions the grid solvers are run with: those whose powers stay
\* within the 32-bit range of the model's exact arithmetic.
GridRhos == {2, -2}

InRange(me) == me.rho \in GridRhos

\* np.empty(n).
Empty(n) == [k \in 1..n |-> Uninit]

\* Fault: the search bounds are (0, m2).
Period2PointFromZero(me, m2) ==
  LET xs == Candidates(OfInt(0), m2)
      fs == [k \in DOMAIN xs |-> RNeg(v2_func(me, xs[k], m2))]
  IN  MinimizeScalarBounded(xs, fs)

\* Fault: the search keeps state between runs; after a completed run it
\* stops at the first point it evaluates.
Period2PointStale(me, m2) ==
  LET xs == Candidates(Eps, m2)
      fs == [k \in DOMAIN xs |-> RNeg(v2_func(me, xs[k], m2))]
  IN  IF log = <<>> THEN MinimizeScalarBounded(xs, fs)
      ELSE [x |-> xs[1], fun |-> fs[1]]

\* The body of solve_period_2's loop for one m2: the bounded search over
\* (1e-8, m2) of -v2_func.
Period2Point(me, m2) ==
  LET xs == Candidates(Eps, m2)
      fs == [k \in DOMAIN xs |-> RNeg(v2_func(me, xs[k], m2))]
  IN  MinimizeScalarBounded(xs, fs)

\* v1 applied as the solver applies it.
ObjectiveValue(objective, me, c1, m1, sg, f) ==
  CASE objective = "v1_func"         -> v1_func(me, c1, m1, f)
    [] objective = "v1_func_no_risk" -> v1_func_no_risk(me, c1, m1, f)
    [] objective = "v1_func_stoch"   -> v1_func_stoch(me, c1, m1, sg, f)

\* Fault: the search bounds are (0, m1).
Period1PointFromZero(objective, me, m1, sg, f) ==
  LET xs == Candidates(OfInt(0), m1)
      fs == [k \in DOMAIN xs |-> RNeg(ObjectiveValue(objective, me, xs[k], m1, sg, f))]
  IN  MinimizeScalarBounded(xs, fs)

\* Fault: the objective's minus sign lost, obj = lambda c1: v1(c1, m1, ...).
Period1PointUnnegated(objective, me, m1, sg, f) ==
  LET xs == Candidates(Eps, m1)
      fs == [k \in DOMAIN xs |-> ObjectiveValue(objective, me, xs[k], m1, sg, f)]
  IN  MinimizeScalarBounded(xs, fs)

\* The body of a period-1 loop for one m1: the bounded search over
\* (1e-8, m1) of -v1.
Period1Point(objective, me, m1, sg, f) ==
  LET xs == Candidates(Eps, m1)
      fs == [k \in DOMAIN xs |-> RNeg(ObjectiveValue(objective, me, xs[k], m1, sg, f))]
  IN  MinimizeScalarBounded(xs, fs)

\* np.random.uniform(sigma_low, sigma_high): the low end, or a point
\* between the two.
Uniform(lo, hi) == {lo, RDiv(RAdd(lo, hi), OfInt(2))}

\* Entering solve_period_2: lines 272-274.
EnterPeriod2 ==
  /\ pc' = "solve_period_2"
  /\ i' = 0
  /\ m2_grid' = Linspace(Eps, OfInt(Hi2), N2)
  /\ v2_grid' = Empty(N2)
  /\ c2_grid' = Empty(N2)

\* model.solve_period_2().
Call_solve_period_2(k) ==
  /\ pc = "idle"
  /\ InRange(heap[ref[k]])
  /\ HasBequest(heap[ref[k]])
  /\ entry' = "solve_period_2"
  /\ self' = ref[k]
  /\ EnterPeriod2
  /\ ret' = NoRet /\ qres' = NoQuery
  /\ success' = <<>>
  /\ UNCHANGED economy
  /\ UNCHANGED <<heap, ref, nsets, v1, v2_interp_func, m1_grid, v1_grid,
                 c1_grid, sigma, ndraws, log>>

\* model.solvez(v1), model.solvez_no_risk(v1), model.solvez_stoch(v1).
Call_solvez(k, e, objective) ==
  /\ pc = "idle"
  /\ objective \in ObjectivesOf(SolverOf(e))
  /\ InRange(heap[ref[k]])
  /\ HasBequest(heap[ref[k]])
  /\ HasRisk(heap[ref[k]], SolverOf(e), objective)
  /\ entry' = e
  /\ self' = ref[k]
  /\ v1' = objective
  /\ EnterPeriod2
  /\ ret' = NoRet /\ qres' = NoQuery
  /\ success' = <<>>
  /\ UNCHANGED economy
  /\ UNCHANGED <<heap, ref, nsets, v2_interp_func, m1_grid, v1_grid,
                 c1_grid, sigma, ndraws, log>>

\* Fault: a pass of solve_period_2's loop may be run again on the same grid
\* point.
Period2StepRetry ==
  /\ pc = "solve_period_2"
  /\ i < N2
  /\ LET m2 == m2_grid[i + 1]
         result == Period2Point(heap[self], m2)
     IN  /\ v2_grid' = [v2_grid EXCEPT ![i + 1] = RNeg(result.fun)]
         /\ c2_grid' = [c2_grid EXCEPT ![i + 1] = result.x]
  /\ i' \in {i, i + 1}
  /\ success' = Append(success, TRUE)
  /\ UNCHANGED economy
  /\ UNCHANGED <<heap, ref, nsets, pc, entry, self, v1, m2_grid,
                 v2_interp_func, m1_grid, v1_grid, c1_grid, sigma, ndraws,
                 ret, qres, log>>

\* One pass of solve_period_2's loop.
Period2Step ==
  /\ pc = "solve_period_2"
  /\ i < N2
  /\ LET m2 == m2_grid[i + 1]
         result == Period2Point(heap[self], m2)
     IN  /\ v2_grid' = [v2_grid EXCEPT ![i + 1] = RNeg(result.fun)]
         /\ c2_grid' = [c2_grid EXCEPT ![i + 1] = result.x]
  /\ i' = i + 1
  /\ success' = Append(success, TRUE)
  /\ UNCHANGED economy
  /\ UNCHANGED <<heap, ref, nsets, pc, entry, self, v1, m2_grid,
                 v2_interp_func, m1_grid, v1_grid, c1_grid, sigma, ndraws,
                 ret, qres, log>>

\* Fault: the loop of solve_period_2 can end one grid point early.
Period2ReturnEarly ==
  /\ pc = "solve_period_2"
  /\ i >= N2 - 1
  /\ IF entry = "solve_period_2"
     THEN /\ ret' = [kind |-> "period2", val |-> <<m2_grid, v2_grid, c2_grid>>]
          /\ pc' = "idle"
          /\ Blank
     ELSE /\ pc' = "interp"
          /\ UNCHANGED <<frame, ret>>
  /\ UNCHANGED <<heap, ref, nsets, qres, log, success,
                 economy>>

\* solve_period_2 returns: to the caller, or into solvez*.
Period2Return ==
  /\ pc = "solve_period_2"
  /\ i = N2
  /\ IF entry = "solve_period_2"
     THEN /\ ret' = [kind |-> "period2", val |-> <<m2_grid, v2_grid, c2_grid>>]
          /\ pc' = "idle"
          /\ Blank
     ELSE /\ pc' = "interp"
          /\ UNCHANGED <<frame, ret>>
  /\ UNCHANGED <<heap, ref, nsets, qres, log, success,
                 economy>>

\* v2_interp_func = self.interp(m2_grid, v2_grid).
BuildInterp ==
  /\ pc = "interp"
  /\ v2_interp_func' = interp(m2_grid, v2_grid)
  /\ pc' = "enter_period_1"
  /\ UNCHANGED <<heap, ref, nsets, entry, self, v1, i, m2_grid, v2_grid,
                 c2_grid, m1_grid, v1_grid, c1_grid, sigma, ndraws, ret,
                 qres, log, success,
                 economy>>

\* Fault: solve_period_1's np.empty(100) copied into the other two solvers.
EnterPeriod1ShortArrays(solver) ==
  /\ pc' = IF solver = "solve_period_1_stoch" THEN "draw" ELSE "optimize"
  /\ i' = 0
  /\ m1_grid' = Linspace(Eps, OfInt(GridHi(solver)), GridSize(solver))
  /\ v1_grid' = Empty(N1Risk)
  /\ c1_grid' = Empty(N1Risk)

\* Entering a period-1 solver: its grid and its two np.empty arrays.
EnterPeriod1(solver) ==
  /\ pc' = IF solver = "solve_period_1_stoch" THEN "draw" ELSE "optimize"
  /\ i' = 0
  /\ m1_grid' = Linspace(Eps, OfInt(GridHi(solver)), GridSize(solver))
  /\ v1_grid' = Empty(GridSize(solver))
  /\ c1_grid' = Empty(GridSize(solver))

\* solvez* calls its period-1 solver.
CallPeriod1 ==
  /\ pc = "enter_period_1"
  /\ EnterPeriod1(SolverOf(entry))
  /\ UNCHANGED <<heap, ref, nsets, entry, self, v1, m2_grid, v2_grid,
                 c2_grid, v2_interp_func, sigma, ndraws, ret, qres, log, success,
                 economy>>

\* model.solve_period_1*(v2_interp_func, v1) with the interpolator the
\* caller holds.
Call_solve_period_1(k, solver, objective) ==
  /\ pc = "idle"
  /\ ret.kind = "func"
  /\ objective \in ObjectivesOf(solver)
  /\ InRange(heap[ref[k]])
  /\ HasRisk(heap[ref[k]], solver, objective)
  /\ entry' = solver
  /\ self' = ref[k]
  /\ v1' = objective
  /\ v2_interp_func' = ret.val
  /\ EnterPeriod1(solver)
  /\ ret' = NoRet /\ qres' = NoQuery
  /\ success' = <<>>
  /\ UNCHANGED economy
  /\ UNCHANGED <<heap, ref, nsets, m2_grid, v2_grid, c2_grid, sigma, ndraws,
                 log>>

\* Fault: the draw is stored on the model, self.sigma_low = sigma.
DrawSigmaStored ==
  /\ pc = "draw"
  /\ i < GridSize(SolverOf(entry))
  /\ sigma' \in Uniform(heap[self].sigma_low, heap[self].sigma_high)
  /\ heap' = [heap EXCEPT ![self].sigma_low = sigma']
  /\ ndraws' = ndraws + 1
  /\ pc' = "optimize"
  /\ UNCHANGED <<ref, nsets, entry, self, v1, i, m2_grid, v2_grid,
                 c2_grid, v2_interp_func, m1_grid, v1_grid, c1_grid, ret,
                 qres, log, success,
                 economy>>

\* Fault: sigma drawn once per solve, before the loop, and kept.
DrawSigmaOncePerSolve ==
  /\ pc = "draw"
  /\ i < GridSize(SolverOf(entry))
  /\ IF i = 0
     THEN /\ sigma' \in Uniform(heap[self].sigma_low, heap[self].sigma_high)
          /\ ndraws' = ndraws + 1
     ELSE UNCHANGED <<sigma, ndraws>>
  /\ pc' = "optimize"
  /\ UNCHANGED <<heap, ref, nsets, entry, self, v1, i, m2_grid, v2_grid,
                 c2_grid, v2_interp_func, m1_grid, v1_grid, c1_grid, ret,
                 qres, log, success,
                 economy>>

\* sigma = np.random.uniform(self.sigma_low, self.sigma_high).
DrawSigma ==
  /\ pc = "draw"
  /\ i < GridSize(SolverOf(entry))
  /\ sigma' \in Uniform(heap[self].sigma_low, heap[self].sigma_high)
  /\ ndraws' = ndraws + 1
  /\ pc' = "optimize"
  /\ UNCHANGED <<heap, ref, nsets, entry, self, v1, i, m2_grid, v2_grid,
                 c2_grid, v2_interp_func, m1_grid, v1_grid, c1_grid, ret,
                 qres, log, success,
                 economy>>

\* The rest of one pass of a period-1 loop: optimise and save.
Period1Step ==
  /\ pc = "optimize"
  /\ i < GridSize(SolverOf(entry))
  /\ LET m1 == m1_grid[i + 1]
         result == Period1Point(v1, heap[self], m1, sigma, v2_interp_func)
     IN  /\ v1_grid' = [v1_grid EXCEPT ![i + 1] = RNeg(result.fun)]
         /\ c1_grid' = [c1_grid EXCEPT ![i + 1] = result.x]
  /\ i' = i + 1
  /\ pc' = IF SolverOf(entry) = "solve_period_1_stoch" THEN "draw" ELSE "optimize"
  /\ success' = Append(success, TRUE)
  /\ UNCHANGED economy
  /\ UNCHANGED <<heap, ref, nsets, entry, self, v1, m2_grid, v2_grid,
                 c2_grid, v2_interp_func, m1_grid, sigma, ndraws, ret, qres,
                 log>>

\* What the call hands back: a period-1 solver its three grids, solvez* the
\* four sequences m1_grid, c1_grid, m2_grid, c2_grid.
Returned ==
  IF entry \in {"solvez", "solvez_no_risk", "solvez_stoch"}
  THEN [kind |-> "solvez", val |-> <<m1_grid, c1_grid, m2_grid, c2_grid>>,
        entry |-> entry, v1 |-> v1, params |-> heap[self]]
  ELSE [kind |-> "period1", val |-> <<m1_grid, v1_grid, c1_grid>>,
        entry |-> entry, v1 |-> v1, params |-> heap[self]]

\* The period-1 loop is over: the solver returns, and so does solvez*.
Period1Return ==
  /\ pc \in {"draw", "optimize"}
  /\ i = GridSize(SolverOf(entry))
  /\ ret' = Returned
  /\ pc' = "idle"
  /\ Blank
  /\ UNCHANGED <<heap, ref, nsets, qres, log, success,
                 economy>>

\* The same return, with the run added to the history.
Period1ReturnLogged ==
  /\ pc \in {"draw", "optimize"}
  /\ i = GridSize(SolverOf(entry))
  /\ ret' = Returned
  /\ log' = Append(log, Returned)
  /\ pc' = "idle"
  /\ Blank
  /\ UNCHANGED <<heap, ref, nsets, qres, success,
                 economy>>

\* Arguments c1, m1 and sigma of a direct call of a period-1 objective.
C1Args == {Rat(1, 2)}
M1Wealths == {OfInt(2), Rat(5, 2)}
SigmaArgs == {Rat(1, 4), Rat(1, 2)}

\* model.v1_func(c1, m1, f) or model.v1_func_stoch(c1, m1, sigma, f), with f
\* an interpolator over grids of the caller's own.
Call_v1(k, objective, c1, m1, sg, g) ==
  /\ pc = "idle"
  /\ objective \in {"v1_func", "v1_func_stoch"}
  /\ InRange(heap[ref[k]])
  /\ objective = "v1_func" => heap[ref[k]].delta # None
  /\ ret' = [kind |-> "value",
             val |-> ObjectiveValue(objective, heap[ref[k]], c1, m1, sg,
                                    interp(g[1], g[2])),
             objective |-> objective, c1 |-> c1, m1 |-> m1, sigma |-> sg,
             func |-> interp(g[1], g[2]), params |-> heap[ref[k]]]
  /\ qres' = NoQuery
  /\ UNCHANGED <<heap, ref, nsets, pc, frame, log, success,
                 economy>>

\* ------------------------------------------------------------ non-convergence

\* Results of the running or last call whose flag is False.
NonConverged == Cardinality({k \in DOMAIN success : ~success[k]})

\* Fault: a result without convergence raises out of solve_period_2.
Period2StepRaises ==
  /\ pc = "solve_period_2"
  /\ i < N2
  /\ NonConverged < MaxFail
  /\ success' = Append(success, FALSE)
  /\ UNCHANGED economy
  /\ ret' = [kind |-> "error", val |-> <<>>]
  /\ pc' = "idle"
  /\ Blank
  /\ UNCHANGED <<heap, ref, nsets, qres, log>>

\* One pass of solve_period_2's loop in which minimize_scalar comes back
\* without convergence: result.success is False, result.x is one of the
\* points it evaluated and result.fun the objective there.  Lines 286-287
\* store them without reading the flag.
Period2StepNonConverged ==
  /\ pc = "solve_period_2"
  /\ i < N2
  /\ NonConverged < MaxFail
  /\ LET m2 == m2_grid[i + 1]
         xs == Candidates(Eps, m2)
     IN  \E k \in DOMAIN xs :
           /\ v2_grid' = [v2_grid EXCEPT ![i + 1] = v2_func(heap[self], xs[k], m2)]
           /\ c2_grid' = [c2_grid EXCEPT ![i + 1] = xs[k]]
  /\ i' = i + 1
  /\ success' = Append(success, FALSE)
  /\ UNCHANGED economy
  /\ UNCHANGED <<heap, ref, nsets, pc, entry, self, v1, m2_grid,
                 v2_interp_func, m1_grid, v1_grid, c1_grid, sigma, ndraws,
                 ret, qres, log>>

\* The same in a period-1 loop (lines 257-258, 322-323, 359-360).
Period1StepNonConverged ==
  /\ pc = "optimize"
  /\ i < GridSize(SolverOf(entry))
  /\ NonConverged < MaxFail
  /\ LET m1 == m1_grid[i + 1]
         xs == Candidates(Eps, m1)
     IN  \E k \in DOMAIN xs :
           /\ v1_grid' = [v1_grid EXCEPT ![i + 1] =
                            ObjectiveValue(v1, heap[self], xs[k], m1, sigma,
                                           v2_interp_func)]
           /\ c1_grid' = [c1_grid EXCEPT ![i + 1] = xs[k]]
  /\ i' = i + 1
  /\ pc' = IF SolverOf(entry) = "solve_period_1_stoch" THEN "draw" ELSE "optimize"
  /\ success' = Append(success, FALSE)
  /\ UNCHANGED economy
  /\ UNCHANGED <<heap, ref, nsets, entry, self, v1, m2_grid, v2_grid,
                 c2_grid, v2_interp_func, m1_grid, sigma, ndraws, ret, qres,
                 log>>

\* solve_cons_crra when root_scalar comes back without convergence:
\* res.converged is False and res.root is the iterate it stopped at (here the
\* starting guess).  Lines 78-83 use res.root without reading the flag.
Call_solve_cons_crra_NonConverged(k, m1) ==
  /\ pc = "idle"
  /\ LET me == heap[ref[k]]
         x  == RMul(me.beta, RAdd(OfInt(1), me.r))
         c1_star == RDiv(m1, OfInt(2))
         c2_star == RMul(RAdd(OfInt(1), me.r), RSub(m1, c1_star))
     IN  /\ x[1] > 0
         /\ me.rho # 0
         /\ \E pw \in PowRoot(x, me.rho) :
              ret' = [kind |-> "crra", val |-> <<c1_star, c2_star>>,
                      m1 |-> m1, pw |-> pw, params |-> me]
  /\ qres' = NoQuery
  /\ success' = <<FALSE>>
  /\ UNCHANGED economy
  /\ UNCHANGED <<heap, ref, nsets, pc, frame, log>>

\* ------------------------------------------------------------ exchange economy
\* src/inauguralproject/ExchangeEconomy.py, class ExchangeEconomyClass.

\* Length of the longest price vector handed to market_clear_price.
MaxPrices == 3

\* np.clip(x, 0, 1).
Clip01(x) ==
  IF RLt(x, OfInt(0)) THEN OfInt(0)
  ELSE IF RLt(OfInt(1), x) THEN OfInt(1)
  ELSE x

\* abs(x).
RAbs(x) == <<Abs(x[1]), x[2]>>

\* xs.min() of a non-empty array.
ArrayMin(xs) ==
  LET entries == {xs[k] : k \in DOMAIN xs}
  IN  CHOOSE m \in entries : \A x \in entries : RLe(m, x)

\* demand_A at one price p1 > 0: <<x1A, x2A>>, each clipped to [0, 1].
demand_A(me, p1) ==
  LET income == RAdd(RMul(me.w1A, p1), me.w2A)
      x1A == RDiv(RMul(me.alpha, income), p1)
      x2A == RMul(RSub(OfInt(1), me.alpha), income)
  IN  <<Clip01(x1A), Clip01(x2A)>>

\* demand_B at one price p1 > 0: <<x1B, x2B>>, each clipped to [0, 1]; B's
\* endowments are computed here as 1 - w1A and 1 - w2A.
demand_B(me, p1) ==
  LET w1B == RSub(OfInt(1), me.w1A)
      w2B == RSub(OfInt(1), me.w2A)
      income == RAdd(RMul(w1B, p1), w2B)
      x1B == RDiv(RMul(me.beta, income), p1)
      x2B == RMul(RSub(OfInt(1), me.beta), income)
  IN  <<Clip01(x1B), Clip01(x2B)>>

\* market_clear_err at one price: <<eps1, eps2>>.
market_clear_err(me, p1) ==
  LET a == demand_A(me, p1)
      b == demand_B(me, p1)
      eps1 == RSub(RAdd(RSub(a[1], me.w1A), b[1]), me.w1B)
      eps2 == RSub(RAdd(RSub(a[2], me.w2A), b[2]), me.w2B)
  IN  <<eps1, eps2>>

\* The two arrays abs(eps_1), abs(eps_2) over a price vector (numpy applies
\* market_clear_err element by element).
AbsErr(me, P_1, good) ==
  [k \in DOMAIN P_1 |-> RAbs(market_clear_err(me, P_1[k])[good])]

\* market_clear_price over a non-empty vector of positive prices: whether
\* the assert passes, and the price then returned, P_1[ids1][0].
market_clear_price(me, P_1) ==
  LET abs1 == AbsErr(me, P_1, 1)
      abs2 == AbsErr(me, P_1, 2)
      min_err1 == ArrayMin(abs1)
      min_err2 == ArrayMin(abs2)
      ids1 == [k \in DOMAIN P_1 |-> abs1[k] = min_err1]
      ids2 == [k \in DOMAIN P_1 |-> abs2[k] = min_err2]
      first == CHOOSE k \in DOMAIN P_1 :
                 ids1[k] /\ \A j \in 1..(k - 1) : ~ids1[j]
  IN  [passed |-> ids1[1] = ids2[1], market_clearing_p |-> P_1[first]]

\* economy = ExchangeEconomyClass(alpha, beta, w1A, w2A).
NewEconomy(alpha, beta, w1A, w2A) ==
  /\ pc = "idle"
  /\ economy' = [alpha |-> alpha, beta |-> beta, w1A |-> w1A, w2A |-> w2A,
                 w1B |-> RSub(OfInt(1), w1A), w2B |-> RSub(OfInt(1), w2A)]
  /\ UNCHANGED <<heap, ref, nsets, pc, frame, ret, qres, log, success>>

\* economy.market_clear_price(P_1): the price, or the AssertionError.
Call_market_clear_price(P_1) ==
  /\ pc = "idle"
  /\ economy # NoEconomy
  /\ LET r == market_clear_price(economy, P_1)
     IN  ret' = IF r.passed
                THEN [kind |-> "price", val |-> r.market_clearing_p,
                      P_1 |-> P_1, params |-> economy]
                ELSE [kind |-> "AssertionError", val |-> <<>>,
                      P_1 |-> P_1, params |-> economy]
  /\ UNCHANGED <<heap, ref, nsets, pc, frame, qres, log, success, economy>>

\* ------------------------------------------------------------ specification

Handles == {n \in Names : ref[n] # 0}

Entries == {"solvez", "solvez_no_risk", "solvez_stoch"}

Period1Solvers ==
  {"solve_period_1", "solve_period_1_no_risk", "solve_period_1_stoch"}

Objectives == {"v1_func", "v1_func_no_risk", "v1_func_stoch"}

CallerStep ==
  \E k \in Handles :
    \/ \E m1 \in M1Args : Call_solve_cons_crra(k, m1)
    \/ \E g \in UserGrids : Call_interp(k, g)
    \/ Call_interp_ret(k)
    \/ Call_solve_period_2(k)
    \/ \E e \in Entries : \E o \in Objectives : Call_solvez(k, e, o)
    \/ \E sv \in Period1Solvers : \E o \in Objectives :
         Call_solve_period_1(k, sv, o)

Next ==
  \/ CallerStep
  \/ \E x \in Queries : Query(x)
  \/ Period2Step
  \/ Period2Return
  \/ BuildInterp
  \/ CallPeriod1
  \/ DrawSigma
  \/ Period1Step
  \/ Period1Return

Spec == Init /\ [][Next]_vars

\* The caller's handling of model objects: assignments, the copy, and the
\* closed-form solver on whatever parameters result.
NextObj ==
  \/ \E k \in Handles : \E f \in Fields : \E val \in AttrValues(f) :
       SetAttr(k, f, val)
  \/ Copy
  \/ \E k \in Handles : \E m1 \in M1Args : Call_solve_cons_crra(k, m1)

SpecObj == Init /\ [][NextObj]_vars

\* Repeated runs of the two deterministic entry points, on the model and
\* on its copy, each completed run kept in log.
NextRuns ==
  \/ Copy
  \/ \E k \in Handles : \E e \in {"solvez", "solvez_no_risk"} :
       \E o \in Objectives : Len(log) < MaxRuns /\ Call_solvez(k, e, o)
  \/ Period2Step
  \/ Period2Return
  \/ BuildInterp
  \/ CallPeriod1
  \/ Period1Step
  \/ Period1ReturnLogged

SpecRuns == Init /\ [][NextRuns]_vars

\* The closed-form solver, solve_period_2 and the two deterministic entry
\* points with optimiser results that may come back without convergence, at
\* most MaxFail of them per call.
NextFail ==
  \/ \E k \in Handles : \E m1 \in M1Args : Call_solve_cons_crra(k, m1)
  \/ \E k \in Handles : \E m1 \in M1Args : Call_solve_cons_crra_NonConverged(k, m1)
  \/ \E k \in Handles : Call_solve_period_2(k)
  \/ \E k \in Handles : \E e \in {"solvez", "solvez_no_risk"} :
       Call_solvez(k, e, "v1_func")
  \/ Period2Step
  \/ Period2StepNonConverged
  \/ Period2Return
  \/ BuildInterp
  \/ CallPeriod1
  \/ Period1Step
  \/ Period1StepNonConverged
  \/ Period1Return

SpecFail == Init /\ [][NextFail]_vars

\* Direct calls of the two risk objectives on whatever parameters
\* assignments produce.
NextEval ==
  \/ \E k \in Handles : \E f \in {"p", "delta", "beta"} :
       \E val \in AttrValues(f) : SetAttr(k, f, val)
  \/ \E k \in Handles : \E o \in Objectives : \E c1 \in C1Args :
       \E m1 \in M1Wealths : \E sg \in SigmaArgs : \E g \in UserGrids :
         Call_v1(k, o, c1, m1, sg, g)

SpecEval == Init /\ [][NextEval]_vars

\* Constructor arguments of the economy (the defaults 1/3, 2/3, 0.8, 0.3 and
\* one more endowment of good 1) and the prices on offer.
Alphas == {Rat(1, 3)}
Betas == {Rat(2, 3)}
W1As == {Rat(4, 5), Rat(1, 2)}
W2As == {Rat(3, 10)}
PriceValues == {Rat(1, 2), OfInt(2), OfInt(5)}

\* The price grids handed in: non-empty vectors of up to MaxPrices distinct
\* prices, in any order.
PriceVectors ==
  {P_1 \in UNION {[1..n -> PriceValues] : n \in 1..MaxPrices} :
     \A j, k \in DOMAIN P_1 : j # k => P_1[j] # P_1[k]}

\* The exchange economy: construction and the grid search for the
\* market-clearing price.
NextMarket ==
  \/ \E alpha \in Alphas : \E beta \in Betas : \E w1A \in W1As :
       \E w2A \in W2As : NewEconomy(alpha, beta, w1A, w2A)
  \/ \E P_1 \in PriceVectors : Call_market_clear_price(P_1)

SpecMarket == Init /\ [][NextMarket]_vars

\* Where a call in progress can be.
Labels ==
  {"idle", "solve_period_2", "interp", "enter_period_1", "draw", "optimize"}

\* The call in progress goes on to its next statement: another place in the
\* code, or the next pass of the loop it is in.  While a call is in progress
\* its own steps (Period2Step to Period1Return) are the only ones possible,
\* every one of them is such a step, and one of them is always possible:
\* each loop either has a next pass, i below the grid size, or returns, i
\* equal to it.
Proceed ==
  /\ pc # "idle"
  /\ pc' \in Labels
  /\ i' \in {0, i, i + 1}
  /\ <<pc', i'>> # <<pc, i>>

\* Spec with the call in progress never left hanging: Python runs its
\* statements one after the other and every optimize.minimize_scalar call is
\* taken to return.  The caller stays free to make no further call.
SpecLive == Init /\ [][Next]_vars /\ WF_<<pc, i>>(Proceed)

\* ------------------------------------------------------------ properties

\* Every entry of the period-2 arrays has been assigned.
Complete2 ==
  /\ Len(v2_grid) = N2
  /\ Len(c2_grid) = N2
  /\ \A k \in 1..N2 : v2_grid[k] # Uninit /\ c2_grid[k] # Uninit

\* C1: in each of solvez, solvez_no_risk and solvez_stoch, period 2 is solved
\* first and to the end: while solve_period_2 runs no period-1 grid, result
\* or interpolator exists, so no period-1 optimisation has come before it and
\* it can read none; once it is left all N2 points of v2_grid and c2_grid are
\* assigned; and while a period-1 loop runs the interpolator is the one built
\* from that complete m2_grid and v2_grid.
C1_Period2BeforePeriod1 ==
  entry \in Entries =>
    /\ pc = "solve_period_2" =>
         /\ m1_grid = <<>> /\ v1_grid = <<>> /\ c1_grid = <<>>
         /\ v2_interp_func = NoFunc
    /\ pc # "solve_period_2" => Complete2
    /\ pc \in {"draw", "optimize"} =>
         /\ v2_interp_func = interp(m2_grid, v2_grid)
         /\ Len(c1_grid) = GridSize(SolverOf(entry))

\* The stochastic entry point has optimised its first period-1 grid point.
C1_Witness ==
  /\ entry = "solvez_stoch"
  /\ pc = "draw"
  /\ i = 1
  /\ c1_grid[1] # Uninit

\* Consumption c chosen at wealth m, the k-th point of a wealth grid:
\* positive and within the budget, all of it at the first point (where the
\* search interval is the single point 1e-8) and less than all of it after.
Feasible(m, c, k) ==
  /\ RLt(OfInt(0), c)
  /\ RLe(c, m)
  /\ k = 1 => c = m /\ m = Eps
  /\ k > 1 => RLt(c, m)

FeasibleGrid(ms, cs) ==
  \A k \in DOMAIN cs : cs[k] # Uninit => Feasible(ms[k], cs[k], k)

StrictGrid(ms, cs) ==
  \A k \in DOMAIN cs :
    cs[k] # Uninit => RLt(OfInt(0), cs[k]) /\ RLt(cs[k], ms[k])

\* C2 (as amended): at every grid point m2 of solve_period_2 the stored c2
\* satisfies 0 < c2 <= m2; c2 < m2 at every point but the first, and at the
\* first point, m2 = 1e-8, c2 = m2.
C2_Period2Feasible ==
  /\ FeasibleGrid(m2_grid, c2_grid)
  /\ ret.kind = "period2" => FeasibleGrid(ret.val[1], ret.val[3])
  /\ ret.kind = "solvez" => FeasibleGrid(ret.val[3], ret.val[4])

\* C2 (as stated): 0 < c2 < m2 strictly at every grid point, the first
\* included.
C2_Period2Strict ==
  /\ StrictGrid(m2_grid, c2_grid)
  /\ ret.kind = "period2" => StrictGrid(ret.val[1], ret.val[3])
  /\ ret.kind = "solvez" => StrictGrid(ret.val[3], ret.val[4])

\* solve_period_2 has stored its last grid point.
C2_Witness ==
  /\ pc = "solve_period_2"
  /\ i = N2
  /\ c2_grid[N2] # Uninit

\* C3 (as amended): at every grid point m1 of solve_period_1,
\* solve_period_1_no_risk and solve_period_1_stoch, for every sigma drawn,
\* the stored c1 satisfies 0 < c1 <= m1; c1 < m1 at every point but the
\* first, and at the first point, m1 = 1e-8, c1 = m1.
C3_Period1Feasible ==
  /\ FeasibleGrid(m1_grid, c1_grid)
  /\ ret.kind = "period1" => FeasibleGrid(ret.val[1], ret.val[3])
  /\ ret.kind = "solvez" => FeasibleGrid(ret.val[1], ret.val[2])

\* C3 (as stated): 0 < c1 < m1 strictly at every grid point of the three
\* period-1 solvers.
C3_Period1Strict ==
  /\ StrictGrid(m1_grid, c1_grid)
  /\ ret.kind = "period1" => StrictGrid(ret.val[1], ret.val[3])
  /\ ret.kind = "solvez" => StrictGrid(ret.val[1], ret.val[2])

\* The stochastic solver has stored its last grid point, one draw per point.
C3_Witness ==
  /\ SolverOf(entry) = "solve_period_1_stoch"
  /\ i = N1Stoch
  /\ ndraws = N1Stoch
  /\ c1_grid[N1Stoch] # Uninit

\* C4: the pair (c1, c2) returned by solve_cons_crra(m1) satisfies the
\* budget c1 + c2/(1+r) = m1 whenever r # -1.
C4_Budget ==
  (ret.kind = "crra" /\ ret.params.r # OfInt(-1)) =>
    RAdd(ret.val[1], RDiv(ret.val[2], RAdd(OfInt(1), ret.params.r))) = ret.m1

\* solve_cons_crra has returned for a nonzero interest rate.
C4_Witness ==
  /\ ret.kind = "crra"
  /\ ret.params.r = Rat(-1, 2)
  /\ ret.m1 = Rat(1, 2)

SameRun(a, b) ==
  /\ a.entry = b.entry
  /\ a.v1 = b.v1
  /\ a.params = b.params

SymmetricNoSpread(me) == me.p = Rat(1, 2) /\ me.delta = OfInt(0)

\* Run a is solvez(v1_func), run b is solvez_no_risk(v1_func_no_risk), on
\* models with the same parameters, p = 0.5 and delta = 0.
RiskPair(a, b) ==
  /\ a.entry = "solvez" /\ a.v1 = "v1_func"
  /\ b.entry = "solvez_no_risk" /\ b.v1 = "v1_func_no_risk"
  /\ a.params = b.params
  /\ SymmetricNoSpread(a.params)

\* C7 (as amended): with p = 0.5 and delta = 0 the objective v1_func agrees
\* with v1_func_no_risk: solvez returns the same result with either
\* objective, and solvez(v1_func) and solvez_no_risk(v1_func_no_risk) return
\* the same c1 at every wealth that is a point of both m1 grids; but the two
\* m1 grids differ in size (100 and 300 points), so the two c1 arrays are
\* not the same point for point.
C7_AgreeOnSharedWealth ==
  \A x \in DOMAIN log : \A y \in DOMAIN log :
    LET a == log[x]
        b == log[y]
    IN  /\ RiskPair(a, b) =>
             /\ Len(a.val[1]) # Len(b.val[1])
             /\ \A j \in DOMAIN a.val[1] : \A k \in DOMAIN b.val[1] :
                  a.val[1][j] = b.val[1][k] => a.val[2][j] = b.val[2][k]
        /\ (/\ a.entry = "solvez" /\ a.v1 = "v1_func"
            /\ b.entry = "solvez" /\ b.v1 = "v1_func_no_risk"
            /\ a.params = b.params
            /\ SymmetricNoSpread(a.params)) => a.val = b.val

\* C7 (as stated): the two runs return the same m1 grid and the same c1 at
\* every point of it.
C7_SameAtEveryPoint ==
  \A x \in DOMAIN log : \A y \in DOMAIN log :
    RiskPair(log[x], log[y]) =>
      /\ log[x].val[1] = log[y].val[1]
      /\ log[x].val[2] = log[y].val[2]

\* Both runs have been completed on such a model.
C7_Witness ==
  /\ Len(log) = 2
  /\ RiskPair(log[1], log[2])

\* C8: copy() binds a new object whose nine attributes equal the original's
\* and leaves the original as it was; from then on a step that changes the
\* attributes of one of the two leaves the other's unchanged.
C8_CopyIndependent ==
  [][ /\ (ref["clone"] = 0 /\ ref'["clone"] # 0) =>
           /\ ref'["clone"] # ref'["model"]
           /\ heap'[ref'["clone"]] = heap[ref["model"]]
           /\ heap'[ref'["model"]] = heap[ref["model"]]
      /\ (ref["clone"] # 0 /\ ref' = ref) =>
           /\ heap'[ref["model"]] # heap[ref["model"]] =>
                heap'[ref["clone"]] = heap[ref["clone"]]
           /\ heap'[ref["clone"]] # heap[ref["clone"]] =>
                heap'[ref["model"]] = heap[ref["model"]]
    ]_vars

\* An attribute has been assigned on one of the two after the copy.
C8_Witness ==
  /\ ref["clone"] # 0
  /\ nsets > 0
  /\ heap[ref["clone"]] # heap[ref["model"]]

\* C9: no step of solve_cons_crra, interp, solve_period_2, the period-1
\* solvers or the solvez* entry points changes an attribute of a model
\* object.
C9_SolversLeaveParameters ==
  [][ (pc # "idle" \/ pc' # "idle" \/ ret' # ret \/ qres' # qres) =>
        heap' = heap /\ ref' = ref ]_vars

\* solvez_stoch has run to the end, sigma drawn at every grid point.
C9_Witness ==
  /\ ret.kind = "solvez"
  /\ ret.entry = "solvez_stoch"
  /\ ret.params = heap[ref["model"]]

\* The point (x, y) lies on the line through the grid points j and j+1.
OnSegmentLine(func, j, x, y) ==
  RMul(RSub(y, func.values[j]), RSub(func.grid[j + 1], func.grid[j]))
    = RMul(RSub(func.values[j + 1], func.values[j]), RSub(x, func.grid[j]))

\* C10: the interpolator returns a number for every query: within the grid
\* the linear interpolant of the two neighbouring points, below the first
\* grid point the continuation of the first segment's line, above the last
\* the continuation of the last segment's.
C10_LinearExtrapolation ==
  (ret.kind = "func" /\ qres # NoQuery) =>
    LET func == ret.val
        n == Len(func.grid)
        x == qres.x
        y == qres.y
    IN  /\ y # Uninit /\ y # None
        /\ RLt(x, func.grid[1]) => OnSegmentLine(func, 1, x, y)
        /\ RLt(func.grid[n], x) => OnSegmentLine(func, n - 1, x, y)
        /\ (RLe(func.grid[1], x) /\ RLe(x, func.grid[n])) =>
             \E j \in 1..(n - 1) :
               /\ RLe(func.grid[j], x) /\ RLe(x, func.grid[j + 1])
               /\ OnSegmentLine(func, j, x, y)

\* A query below the grid of an interpolator built from solve_period_2's
\* output has been answered off the first segment's slope.
C10_Witness ==
  /\ ret.kind = "func"
  /\ Len(ret.val.grid) = N2
  /\ qres # NoQuery
  /\ RLt(qres.x, ret.val.grid[1])
  /\ qres.y # ret.val.values[1]

\* The assigned entries of cs never fall from one grid index to the next.
NonDecreasing(cs) ==
  \A k \in 1..(Len(cs) - 1) :
    (cs[k] # Uninit /\ cs[k + 1] # Uninit) => RLe(cs[k], cs[k + 1])

\* The run is of the two-point-risk or the no-risk period-1 solver.
Deterministic(e) == SolverOf(e) \in {"solve_period_1", "solve_period_1_no_risk"}

Stored(cs) == Cardinality({k \in DOMAIN cs : cs[k] # Uninit})

\* C12: in solve_period_1_stoch one sigma is drawn per grid point, between
\* the storing of point i-1 and the optimisation of point i: before the draw
\* of point i+1 there have been i draws and i stored results, during the
\* optimisation of point i+1 there have been i+1 draws and sigma is a value
\* of Uniform(sigma_low, sigma_high); the value stored for a point is the
\* objective at the stored c1 under that point's sigma; and when the loop is
\* over exactly as many draws as grid points have been made.
C12_OneDrawPerPoint ==
  SolverOf(entry) = "solve_period_1_stoch" =>
    /\ pc = "draw" =>
         /\ ndraws = i
         /\ Stored(c1_grid) = i /\ Stored(v1_grid) = i
         /\ i >= 1 =>
              v1_grid[i] = v1_func_stoch(heap[self], c1_grid[i], m1_grid[i],
                                         sigma, v2_interp_func)
         /\ i = N1Stoch => ndraws = N1Stoch
    /\ pc = "optimize" =>
         /\ ndraws = i + 1
         /\ i < N1Stoch
         /\ Stored(c1_grid) = i
         /\ c1_grid[i + 1] = Uninit
         /\ sigma \in Uniform(heap[self].sigma_low, heap[self].sigma_high)

\* The second grid point is about to be optimised under a second draw that
\* is not the low end of the range.
C12_Witness ==
  /\ entry = "solve_period_1_stoch"
  /\ pc = "optimize"
  /\ i = 1
  /\ ndraws = 2
  /\ sigma # heap[self].sigma_low

\* What a call hands back when it returns normally.
ResultKinds == {"crra", "period2", "period1", "solvez"}

\* Optimisations a completed call of entry point e has run.
Optimisations(e) ==
  IF e = "solve_period_2" THEN N2
  ELSE IF e \in Entries THEN N2 + GridSize(SolverOf(e))
  ELSE GridSize(e)

\* C13 (as amended): an optimiser result without convergence raises nothing
\* and ends nothing: its x and fun are stored like any other, the loop runs
\* on over the remaining grid points, and the call returns its complete
\* result sequences (solve_cons_crra its pair), which then contain the entry
\* of the non-converged optimisation.
C13_NonConvergedStored ==
  /\ pc \in {"solve_period_2", "interp", "enter_period_1", "draw", "optimize"} =>
       Len(success) = Stored(c2_grid) + Stored(c1_grid)
  /\ (pc = "idle" /\ success # <<>>) =>
       /\ ret.kind \in ResultKinds
       /\ ret.kind = "crra" => Len(success) = 1 /\ Len(ret.val) = 2
       /\ ret.kind = "period2" =>
            /\ Len(success) = N2
            /\ Stored(ret.val[2]) = N2 /\ Stored(ret.val[3]) = N2
       /\ ret.kind = "solvez" =>
            /\ Len(success) = Optimisations(ret.entry)
            /\ Stored(ret.val[2]) = GridSize(SolverOf(ret.entry))
            /\ Stored(ret.val[4]) = N2

\* C13 (as stated): a call in which an optimisation did not converge returns
\* no result, so every returned result comes from converged optimisations
\* only.
C13_NoNonConvergedReturned ==
  ret.kind \in ResultKinds => \A k \in DOMAIN success : success[k]

\* solvez has returned all four sequences although the second period-2
\* optimisation did not converge.
C13_Witness ==
  /\ pc = "idle"
  /\ ret.kind = "solvez"
  /\ ret.entry = "solvez"
  /\ ~success[2]
  /\ Stored(ret.val[4]) = N2

\* Next-period wealth at the high and at the low outcome of a direct call
\* v of a risk objective.
M2High(v) ==
  LET s == RMul(RAdd(OfInt(1), v.params.r), RSub(v.m1, v.c1))
  IN  IF v.objective = "v1_func"
      THEN RAdd(s, RAdd(OfInt(1), v.params.delta))
      ELSE RMul(s, RAdd(OfInt(1), v.sigma))

M2Low(v) ==
  LET s == RMul(RAdd(OfInt(1), v.params.r), RSub(v.m1, v.c1))
  IN  IF v.objective = "v1_func"
      THEN RAdd(s, RSub(OfInt(1), v.params.delta))
      ELSE RMul(s, RSub(OfInt(1), v.sigma))

Changed(a, b) == {k \in DOMAIN a : a[k] # b[k]}

\* From one state to the next a wealth grid stays as it is and the value and
\* consumption arrays over it get at most one new entry, the same index in
\* both, in a place not assigned before.
WrittenOnce(ms, msNext, vs, vsNext, cs, csNext) ==
  (cs # <<>> /\ csNext # <<>>) =>
    /\ msNext = ms
    /\ Len(csNext) = Len(cs) /\ Len(vsNext) = Len(vs)
    /\ Changed(cs, csNext) = Changed(vs, vsNext)
    /\ Cardinality(Changed(cs, csNext)) <= 1
    /\ \A k \in Changed(cs, csNext) : cs[k] = Uninit /\ vs[k] = Uninit

\* The arrays of the running call: period 2 over N2 points, period 1 over the
\* solver's grid size, value and consumption entry k both computed at wealth
\* entry k.
GridsParallel ==
  /\ m2_grid # <<>> =>
       /\ m2_grid = Linspace(Eps, OfInt(Hi2), N2)
       /\ Len(v2_grid) = N2 /\ Len(c2_grid) = N2
       /\ \A k \in 1..N2 :
            /\ (v2_grid[k] = Uninit) = (c2_grid[k] = Uninit)
            /\ (c2_grid[k] # Uninit /\ success[k]) =>
                 /\ c2_grid[k] = Period2Point(heap[self], m2_grid[k]).x
                 /\ v2_grid[k] = v2_func(heap[self], c2_grid[k], m2_grid[k])
  /\ m1_grid # <<>> =>
       LET solver == SolverOf(entry)
           n == GridSize(solver)
       IN  /\ m1_grid = Linspace(Eps, OfInt(GridHi(solver)), n)
           /\ Len(v1_grid) = n /\ Len(c1_grid) = n
           /\ \A k \in 1..n : (v1_grid[k] = Uninit) = (c1_grid[k] = Uninit)
           /\ \A k \in 1..n :
                (c1_grid[k] # Uninit /\ solver # "solve_period_1_stoch") =>
                  /\ c1_grid[k] = Period1Point(v1, heap[self], m1_grid[k],
                                               sigma, v2_interp_func).x
                  /\ v1_grid[k] = ObjectiveValue(v1, heap[self], c1_grid[k],
                                    m1_grid[k], sigma, v2_interp_func)

\* What has been returned: three sequences of the solver's grid size, or
\* from solvez* the four sequences m1 grid, c1, m2 grid, c2 in that order.
ReturnedShape ==
  /\ ret.kind = "period2" =>
       /\ Len(ret.val) = 3
       /\ ret.val[1] = Linspace(Eps, OfInt(Hi2), N2)
       /\ Stored(ret.val[2]) = N2 /\ Stored(ret.val[3]) = N2
  /\ ret.kind = "period1" =>
       /\ Len(ret.val) = 3
       /\ ret.val[1] = Linspace(Eps, OfInt(GridHi(ret.entry)), GridSize(ret.entry))
       /\ Stored(ret.val[2]) = GridSize(ret.entry)
       /\ Stored(ret.val[3]) = GridSize(ret.entry)
       /\ Len(ret.val[2]) = GridSize(ret.entry)
       /\ Len(ret.val[3]) = GridSize(ret.entry)
  /\ ret.kind = "solvez" =>
       LET solver == SolverOf(ret.entry)
       IN  /\ Len(ret.val) = 4
           /\ ret.val[1] = Linspace(Eps, OfInt(GridHi(solver)), GridSize(solver))
           /\ Len(ret.val[2]) = GridSize(solver)
           /\ Stored(ret.val[2]) = GridSize(solver)
           /\ \A k \in 1..GridSize(solver) : RLe(ret.val[2][k], ret.val[1][k])
           /\ ret.val[3] = Linspace(Eps, OfInt(Hi2), N2)
           /\ Len(ret.val[4]) = N2
           /\ \A k \in 1..N2 :
                ret.val[4][k] = Period2Point(ret.params, ret.val[3][k]).x

\* C15: every grid solver fills three parallel sequences of one length (N2
\* for period 2, N1Risk, N1NoRisk and N1Stoch for the period-1 solvers, the
\* source's 500, 100, 300 and 300), entry k of the value and consumption
\* sequences being the result of the optimisation at wealth entry k and
\* written once; each solvez* entry point returns the four sequences m1
\* grid, c1, m2 grid, c2 in that order.
C15_ParallelSequences ==
  [][ /\ GridsParallel
      /\ ReturnedShape
      /\ WrittenOnce(m2_grid, m2_grid', v2_grid, v2_grid', c2_grid, c2_grid')
      /\ WrittenOnce(m1_grid, m1_grid', v1_grid, v1_grid', c1_grid, c1_grid')
    ]_vars

\* solvez_no_risk has returned its four sequences.
C15_Witness ==
  /\ ret.kind = "solvez"
  /\ ret.entry = "solvez_no_risk"
  /\ Len(ret.val[1]) = N1NoRisk
  /\ Len(ret.val[2]) = N1NoRisk
  /\ Len(ret.val[3]) = N2
  /\ Len(ret.val[4]) = N2

\* Entries 1..n of an array are assigned and the rest are not.
FilledTo(cs, n) ==
  \A k \in DOMAIN cs : (cs[k] # Uninit) = (k <= n)

\* The optimisations a solvez* call has made so far, one per received
\* result: period 2 first, grid points 1..i in order, then period 1 over the
\* whole of the period-2 grid, each grid point solved once.
OptimisationsInOrder ==
  (entry \in Entries /\ pc # "idle") =>
    /\ pc = "solve_period_2" =>
         /\ FilledTo(c2_grid, i)
         /\ c1_grid = <<>>
         /\ Len(success) = i
    /\ pc \in {"interp", "enter_period_1"} =>
         /\ FilledTo(c2_grid, N2)
         /\ c1_grid = <<>>
         /\ Len(success) = N2
    /\ pc \in {"draw", "optimize"} =>
         /\ FilledTo(c2_grid, N2)
         /\ FilledTo(c1_grid, i)
         /\ Len(success) = N2 + i

\* A returned solvez* call made N2 optimisations and then one per point of
\* its period-1 grid.
OptimisationsAtReturn ==
  ret.kind = "solvez" =>
    Len(success) = N2 + GridSize(SolverOf(ret.entry))

\* The loop index only moves forward by one, or starts again at 0 when a
\* solver is entered or the call returns.
IndexAdvances ==
  i' # i =>
    \/ i' = i + 1 /\ pc' = pc /\ pc = "solve_period_2"
    \/ i' = i + 1 /\ pc \in {"draw", "optimize"} /\ pc' \in {"draw", "optimize"}
    \/ i' = 0 /\ pc' # pc

\* C16: with every minimizer call returning, each solvez* entry point
\* terminates: it makes N2 period-2 optimisations followed by one period-1
\* optimisation per point of its period-1 grid (500, then 100 or 300, in the
\* source), each grid index once and in increasing order, and then returns;
\* no grid point is solved again.
C16_Terminates ==
  /\ [](OptimisationsInOrder /\ OptimisationsAtReturn)
  /\ [][IndexAdvances]_vars
  /\ \A e \in Entries :
       (entry = e /\ pc # "idle") ~>
         (pc = "idle" /\ ret.kind = "solvez" /\ ret.entry = e)

\* solvez has returned after N2 + N1Risk optimisations.
C16_Witness ==
  /\ pc = "idle"
  /\ ret.kind = "solvez"
  /\ ret.entry = "solvez"
  /\ Len(success) = N2 + N1Risk
  /\ \A k \in 1..Len(success) : success[k]

\* The price k of a vector minimises the absolute error of a good over the
\* vector.
MinimisesErr(me, P_1, good, k) ==
  LET errs == AbsErr(me, P_1, good)
  IN  \A j \in DOMAIN P_1 : RLe(errs[k], errs[j])

\* C17: whenever market_clear_price(P_1) returns, the returned price is an
\* element of P_1 at which the absolute market-clearing errors of good 1 and
\* of good 2 both attain their minimum over P_1.
C17_CommonMinimiser ==
  ret.kind = "price" =>
    \E k \in DOMAIN ret.P_1 :
      /\ ret.P_1[k] = ret.val
      /\ MinimisesErr(ret.params, ret.P_1, 1, k)
      /\ MinimisesErr(ret.params, ret.P_1, 2, k)

====
